---- MODULE Spec2Model ----
(***************************************************************************)
(* Model of "Youtube_Scraper/Scraper by category.py": the sanitizer        *)
(* (prepare_feature), the record extractor (get_tags, get_videos), the     *)
(* page fetcher (api_request), the pagination driver (get_pages), the      *)
(* writer (write_to_file) and the orchestrator (get_data, __main__).       *)
(*                                                                         *)
(* Python strings are sequences of one-character strings.  A Python scalar *)
(* is a tagged record [t |-> "str" | "int" | "bool", v |-> ...].  A Python *)
(* dict is a function whose domain is the set of its keys.                 *)
(***************************************************************************)
EXTENDS Integers, Sequences, FiniteSets, TLC

VARIABLES
    pf_in, pf_out,          \* prepare_feature: argument, returned text
    gv_in, gv_out,          \* get_videos: argument, outcome
    entry,                  \* "main" (__main__) or "get_data" (get_data called directly)
    by_category_flag,       \* __main__: whether --by_category is on the command line
    key_file, code_file,    \* setup: the two input files
    country_codes,          \* get_data: the country codes
    collect_by_category,    \* get_data: the category-splitting argument
    pc,                     \* position of the single thread of control
    exit_status,            \* <<>> while the process runs, then <<its exit status>>
    ci, ki,                 \* get_data: index of the current country, category
    next_page_token,        \* get_pages: next_page_token
    country_data,           \* get_pages: country_data
    fetches,                \* the api_request calls made for the current target
    nfetch,                 \* number of api_request calls of the run
    last_fetch,             \* how the last api_request call of the run ended
    dir_exists, files,      \* the output directory on disk
    handled                 \* the targets get_data is through with

vars == <<pf_in, pf_out, gv_in, gv_out, entry, by_category_flag, key_file,
          code_file, country_codes, collect_by_category, pc, exit_status,
          ci, ki, next_page_token, country_data, fetches, nfetch,
          last_fetch, dir_exists, files, handled>>

None == "None"

\* Python's None where a text can stand
PyNone == <<"None">>

\* no api_request call yet
NoFetch == [outcome |-> "none", ci |-> 0, ki |-> 0]

----------------------------------------------------------------------------
(* Bounds of the model. *)

MaxLen == 3          \* length of the strings given to prepare_feature
MaxItems == 3        \* length of the item lists given to get_videos
MaxFetches == 4      \* requests the simulated API answers in one run
NumCategories == 2   \* entries of CATEGORIES that get_data iterates over

----------------------------------------------------------------------------
(* Text. *)

NL == "\n"
QUOTE == "\""
COMMA == ","

T(s) == [t |-> "str", v |-> s]
I(n) == [t |-> "int", v |-> n]
B(b) == [t |-> "bool", v |-> b]

Digit(d) == CASE d = 0 -> "0" [] d = 1 -> "1" [] d = 2 -> "2" [] d = 3 -> "3"
              [] d = 4 -> "4" [] d = 5 -> "5" [] d = 6 -> "6" [] d = 7 -> "7"
              [] d = 8 -> "8" [] d = 9 -> "9"

RECURSIVE NatText(_)
NatText(n) == IF n < 10 THEN <<Digit(n)>>
              ELSE NatText(n \div 10) \o <<Digit(n % 10)>>

\* str(x) of a Python scalar
str(x) == CASE x.t = "str" -> x.v
            [] x.t = "int" -> IF x.v < 0 THEN <<"-">> \o NatText(-x.v)
                              ELSE NatText(x.v)
            [] x.t = "bool" -> IF x.v THEN <<"T", "r", "u", "e">>
                               ELSE <<"F", "a", "l", "s", "e">>

\* s.replace(old, new) for a one-character old
RECURSIVE replace(_, _, _)
replace(s, old, new) ==
    IF s = <<>> THEN <<>>
    ELSE (IF Head(s) = old THEN new ELSE <<Head(s)>>) \o replace(Tail(s), old, new)

\* sep.join(parts)
RECURSIVE join(_, _)
join(sep, parts) ==
    IF parts = <<>> THEN <<>>
    ELSE IF Len(parts) = 1 THEN parts[1]
    ELSE parts[1] \o sep \o join(sep, Tail(parts))

\* the characters of a string literal of the program or of its input files
Text(s) ==
    CASE s = "video_id" -> <<"v", "i", "d", "e", "o", "_", "i", "d">>
      [] s = "title" -> <<"t", "i", "t", "l", "e">>
      [] s = "publishedAt" -> <<"p", "u", "b", "l", "i", "s", "h", "e", "d", "A", "t">>
      [] s = "channelId" -> <<"c", "h", "a", "n", "n", "e", "l", "I", "d">>
      [] s = "channelTitle" -> <<"c", "h", "a", "n", "n", "e", "l", "T", "i", "t", "l", "e">>
      [] s = "categoryId" -> <<"c", "a", "t", "e", "g", "o", "r", "y", "I", "d">>
      [] s = "trending_date" -> <<"t", "r", "e", "n", "d", "i", "n", "g", "_", "d", "a", "t", "e">>
      [] s = "tags" -> <<"t", "a", "g", "s">>
      [] s = "view_count" -> <<"v", "i", "e", "w", "_", "c", "o", "u", "n", "t">>
      [] s = "likes" -> <<"l", "i", "k", "e", "s">>
      [] s = "dislikes" -> <<"d", "i", "s", "l", "i", "k", "e", "s">>
      [] s = "comment_count" -> <<"c", "o", "m", "m", "e", "n", "t", "_", "c", "o", "u", "n", "t">>
      [] s = "thumbnail_link" -> <<"t", "h", "u", "m", "b", "n", "a", "i", "l", "_", "l", "i", "n", "k">>
      [] s = "comments_disabled" -> <<"c", "o", "m", "m", "e", "n", "t", "s", "_", "d", "i", "s", "a", "b", "l", "e", "d">>
      [] s = "ratings_disabled" -> <<"r", "a", "t", "i", "n", "g", "s", "_", "d", "i", "s", "a", "b", "l", "e", "d">>
      [] s = "description" -> <<"d", "e", "s", "c", "r", "i", "p", "t", "i", "o", "n">>
      [] s = "duration" -> <<"d", "u", "r", "a", "t", "i", "o", "n">>
      [] s = "US" -> <<"U", "S">>
      [] s = "GB" -> <<"G", "B">>
      [] s = "output/" -> <<"o", "u", "t", "p", "u", "t", "/">>

UNSAFE_CHARACTERS == <<NL, QUOTE>>

\* the loop of prepare_feature, from its i-th iteration on
RECURSIVE prepare_loop(_, _)
prepare_loop(feature, i) ==
    IF i > Len(UNSAFE_CHARACTERS) THEN feature
    ELSE prepare_loop(T(replace(str(feature), UNSAFE_CHARACTERS[i], <<>>)), i + 1)

\* a slip: every iteration starts again from the argument
prepare_feature_restart(feature) ==
    LET n == Len(UNSAFE_CHARACTERS)
    IN  <<QUOTE>> \o replace(str(feature), UNSAFE_CHARACTERS[n], <<>>) \o <<QUOTE>>

\* a slip: only the first unsafe character is removed
prepare_feature_newline_only(feature) ==
    <<QUOTE>> \o replace(str(feature), UNSAFE_CHARACTERS[1], <<>>) \o <<QUOTE>>

prepare_feature(feature) ==
    <<QUOTE>> \o str(prepare_loop(feature, 1)) \o <<QUOTE>>

----------------------------------------------------------------------------
(* Scalars given to prepare_feature. *)

Chars == {"a", COMMA, NL, QUOTE}

RECURSIVE TextsOfLen(_)
TextsOfLen(n) ==
    IF n = 0 THEN {<<>>}
    ELSE {<<c>> \o s : c \in Chars, s \in TextsOfLen(n - 1)}

Texts == UNION {TextsOfLen(n) : n \in 0..MaxLen}

Scalars == {T(s) : s \in Texts} \cup {I(n) : n \in {-12, 0, 7, 105}}
           \cup {B(b) : b \in BOOLEAN}

----------------------------------------------------------------------------
(* Record extractor. *)

EmptyDict == [k \in {} |-> None]

\* d.get(k, default)
Get(d, k, default) == IF k \in DOMAIN d THEN d[k] ELSE default

Restrict(d, keys) == [k \in keys |-> d[k]]

SNIPPET_FEATURES ==
    <<"title", "publishedAt", "channelId", "channelTitle", "categoryId">>

\* a slip: the two flag columns are named in the other order
HEADER_flags_swapped ==
    <<"video_id">> \o SNIPPET_FEATURES \o
    <<"trending_date", "tags", "view_count", "likes", "dislikes",
      "comment_count", "thumbnail_link", "ratings_disabled",
      "comments_disabled", "description", "duration">>

HEADER ==
    <<"video_id">> \o SNIPPET_FEATURES \o
    <<"trending_date", "tags", "view_count", "likes", "dislikes",
      "comment_count", "thumbnail_link", "comments_disabled",
      "ratings_disabled", "description", "duration">>

\* time.strftime("%Y-%m-%d") on the day of the run
strftime_today == <<"2", "0", "2", "4", "-", "0", "1", "-", "3", "1">>

NoneTag == <<"[", "n", "o", "n", "e", "]">>

\* a slip: an empty tag list is joined as it is, without the [none] token
get_tags_no_sentinel(tags_list) == prepare_feature(T(join(<<"|">>, tags_list)))

get_tags(tags_list) ==
    LET tl == IF tags_list = <<>> THEN <<NoneTag>> ELSE tags_list
    IN  prepare_feature(T(join(<<"|">>, tl)))

\* the statements of the loop body that raise KeyError: video['id'], video['snippet']
raises_KeyError(video) == "id" \notin DOMAIN video \/ "snippet" \notin DOMAIN video

\* a slip: dislikeCount is read whether or not likeCount is there
rating_fields_dislikes_kept(statistics) ==
    [ratings_disabled |-> B("likeCount" \notin DOMAIN statistics),
     likes |-> Get(statistics, "likeCount", I(0)),
     dislikes |-> Get(statistics, "dislikeCount", I(0))]

\* the check for likes/dislikes
rating_fields(statistics) ==
    IF "likeCount" \in DOMAIN statistics
    THEN [ratings_disabled |-> B(FALSE),
          likes |-> statistics["likeCount"],
          dislikes |-> Get(statistics, "dislikeCount", I(0))]
    ELSE [ratings_disabled |-> B(TRUE), likes |-> I(0), dislikes |-> I(0)]

\* a slip: comments_disabled keeps its initial value
comment_fields_flag_unset(statistics) ==
    [comments_disabled |-> B(FALSE),
     comment_count |-> Get(statistics, "commentCount", I(0))]

\* the check for the comment count
comment_fields(statistics) ==
    IF "commentCount" \in DOMAIN statistics
    THEN [comments_disabled |-> B(FALSE), comment_count |-> statistics["commentCount"]]
    ELSE [comments_disabled |-> B(TRUE), comment_count |-> I(0)]

\* the list `line` that the loop body compiles for one video
video_line(video) ==
    LET video_id == prepare_feature(video["id"])
        duration == Get(Get(video, "contentDetails", EmptyDict), "duration", T(<<>>))
        snippet == video["snippet"]
        statistics == video["statistics"]
        features == [i \in 1..Len(SNIPPET_FEATURES) |->
                        prepare_feature(Get(snippet, SNIPPET_FEATURES[i], T(<<>>)))]
        description == Get(snippet, "description", T(<<>>))
        thumbnail_link ==
            Get(Get(Get(snippet, "thumbnails", EmptyDict), "default", EmptyDict),
                "url", T(<<>>))
        trending_date == T(strftime_today)
        tags == T(get_tags(Get(snippet, "tags", <<>>)))
        view_count == Get(statistics, "viewCount", I(0))
        ratings == rating_fields(statistics)
        comments == comment_fields(statistics)
        rest == <<trending_date, tags, view_count, ratings.likes, ratings.dislikes,
                  comments.comment_count, thumbnail_link, comments.comments_disabled,
                  ratings.ratings_disabled, description, duration>>
    IN  <<video_id>> \o features \o [i \in 1..Len(rest) |-> prepare_feature(rest[i])]

\* the loop of get_videos from item i on, `lines` being the rows so far
RECURSIVE get_videos_loop(_, _, _)
get_videos_loop(items, i, lines) ==
    IF i > Len(items) THEN [raised |-> FALSE, lines |-> lines]
    ELSE IF "statistics" \notin DOMAIN items[i]
         THEN get_videos_loop(items, i + 1, lines)
    ELSE IF raises_KeyError(items[i]) THEN [raised |-> TRUE, lines |-> <<>>]
    ELSE get_videos_loop(items, i + 1,
                         Append(lines, join(<<COMMA>>, video_line(items[i]))))

get_videos(items) == get_videos_loop(items, 1, <<>>)

----------------------------------------------------------------------------
(* Raw items given to get_videos. *)

FullStatistics ==
    [viewCount |-> I(105), likeCount |-> T(<<"7">>), dislikeCount |-> I(3),
     commentCount |-> T(<<"1", "2">>)]

StatisticsPool == {Restrict(FullStatistics, K) : K \in SUBSET DOMAIN FullStatistics}

FullSnippet ==
    [title |-> T(<<"a", QUOTE, COMMA>>), publishedAt |-> T(<<"p">>),
     channelId |-> T(<<"c">>), channelTitle |-> T(<<"n", NL>>),
     categoryId |-> T(<<"1", "0">>), description |-> T(<<"d", NL, QUOTE>>),
     tags |-> << <<"x">>, <<"y", QUOTE>> >>,
     thumbnails |-> [default |-> [url |-> T(<<"u">>)]]]

SnippetPool ==
    {FullSnippet, EmptyDict}
    \cup {Restrict(FullSnippet, DOMAIN FullSnippet \ {k}) : k \in DOMAIN FullSnippet}
    \cup {[FullSnippet EXCEPT !.thumbnails = EmptyDict],
          [FullSnippet EXCEPT !.thumbnails = [default |-> EmptyDict]],
          [FullSnippet EXCEPT !.tags = <<>>]}

ContentDetailsPool == {EmptyDict, [duration |-> T(<<"P", "T", "1", "M">>)]}

video_id_of(n) == T(<<"v">> \o NatText(n))

\* every item with optional id, snippet, statistics and contentDetails
ItemPool ==
    {Restrict([id |-> id, snippet |-> sn, statistics |-> st, contentDetails |-> cd], K) :
        id \in {video_id_of(1)}, sn \in SnippetPool, st \in StatisticsPool,
        cd \in ContentDetailsPool,
        K \in SUBSET {"id", "snippet", "statistics", "contentDetails"}}

\* the shapes of item the simulated API serves: a valid item, a removed video
\* (no statistics), an item with statistics and no snippet
Shapes == {"valid", "removed", "nosnippet"}

item_of(shape, n, region, category) ==
    LET snippet == [title |-> T(region), categoryId |-> T(category)]
    IN  CASE shape = "valid" ->
                [id |-> video_id_of(n), snippet |-> snippet,
                 statistics |-> Restrict(FullStatistics, {"viewCount"})]
          [] shape = "removed" ->
                [id |-> video_id_of(n), snippet |-> snippet]
          [] shape = "nosnippet" ->
                [id |-> video_id_of(n), statistics |-> EmptyDict]

RECURSIVE ShapeLists(_)
ShapeLists(n) ==
    IF n = 0 THEN {<<>>}
    ELSE ShapeLists(n - 1)
         \cup {Append(s, x) : s \in {l \in ShapeLists(n - 1) : Len(l) = n - 1}, x \in Shapes}

\* the items of a page: item k of page p of a target has its own video id
page_items(shapes, base, region, category) ==
    [k \in 1..Len(shapes) |-> item_of(shapes[k], base + k, region, category)]

ItemLists ==
    {<<it>> : it \in ItemPool}
    \cup {page_items(s, 0, <<"U", "S">>, <<"1", "0">>) : s \in ShapeLists(MaxItems)}

----------------------------------------------------------------------------
(* Specifications of the pure functions: the argument is drawn, the       *)
(* function is applied once.                                              *)

Idle ==
    /\ entry = "none" /\ by_category_flag = FALSE
    /\ key_file = "key" /\ code_file = [exists |-> FALSE, lines |-> <<>>]
    /\ country_codes = <<>> /\ collect_by_category = FALSE
    /\ pc = "idle" /\ exit_status = <<>>
    /\ ci = 0 /\ ki = 0
    /\ next_page_token = PyNone /\ country_data = <<>>
    /\ fetches = <<>> /\ nfetch = 0 /\ last_fetch = NoFetch
    /\ dir_exists = FALSE /\ files = EmptyDict /\ handled = <<>>

mainVars == <<entry, by_category_flag, key_file, code_file, country_codes,
              collect_by_category, pc, exit_status, ci, ki, next_page_token,
              country_data, fetches, nfetch, last_fetch, dir_exists, files,
              handled>>

NoText == [done |-> FALSE, text |-> <<>>]
NoRows == [done |-> FALSE, raised |-> FALSE, lines |-> <<>>]

InitSanitize ==
    /\ pf_in \in Scalars /\ pf_out = NoText
    /\ gv_in = <<>> /\ gv_out = NoRows
    /\ Idle

CallPrepareFeature ==
    /\ ~pf_out.done
    /\ pf_out' = [done |-> TRUE, text |-> prepare_feature(pf_in)]
    /\ UNCHANGED <<pf_in, gv_in, gv_out, mainVars>>

SpecSanitize == InitSanitize /\ [][CallPrepareFeature]_vars

InitExtract ==
    /\ pf_in = T(<<>>) /\ pf_out = NoText
    /\ gv_in \in ItemLists /\ gv_out = NoRows
    /\ Idle

CallGetVideos ==
    /\ ~gv_out.done
    /\ gv_out' = [done |-> TRUE, raised |-> get_videos(gv_in).raised,
                  lines |-> get_videos(gv_in).lines]
    /\ UNCHANGED <<pf_in, pf_out, gv_in, mainVars>>

SpecExtract == InitExtract /\ [][CallGetVideos]_vars

----------------------------------------------------------------------------
(* Setup. *)

Whitespace == {" ", NL}

\* x.rstrip()
RECURSIVE rstrip(_)
rstrip(x) == IF x # <<>> /\ x[Len(x)] \in Whitespace
             THEN rstrip(SubSeq(x, 1, Len(x) - 1)) ELSE x

\* x.strip()
RECURSIVE lstrip(_)
lstrip(x) == IF x # <<>> /\ Head(x) \in Whitespace THEN lstrip(Tail(x)) ELSE x

strip(x) == lstrip(rstrip(x))

\* the key files: none, one whose first line is blank, one with a key
KeyFiles == {"missing", "blank", "key"}

\* the country-code files: none, or a list of lines
CodeFiles ==
    {[exists |-> FALSE, lines |-> <<>>],
     [exists |-> TRUE, lines |-> <<>>],
     [exists |-> TRUE, lines |-> << <<" ", NL>>, <<NL>> >>],
     [exists |-> TRUE, lines |-> << <<"U", "S", NL>>, <<NL>>, <<"G", "B", " ", NL>> >>]}

\* setup: the country codes, or the exit through sys.exit(1)
\* a slip: a country-code file without any code is accepted
setup_empty_codes_accepted(key, code) ==
    LET codes == [i \in 1..Len(SelectSeq(code.lines, LAMBDA x : strip(x) # <<>>)) |->
                     rstrip(SelectSeq(code.lines, LAMBDA x : strip(x) # <<>>)[i])]
    IN  IF key = "missing" \/ key = "blank" \/ ~code.exists
        THEN [exit |-> TRUE, country_codes |-> <<>>]
        ELSE [exit |-> FALSE, country_codes |-> codes]

setup(key, code) ==
    LET codes == [i \in 1..Len(SelectSeq(code.lines, LAMBDA x : strip(x) # <<>>)) |->
                     rstrip(SelectSeq(code.lines, LAMBDA x : strip(x) # <<>>)[i])]
    IN  IF key = "missing" \/ key = "blank" \/ ~code.exists \/ codes = <<>>
        THEN [exit |-> TRUE, country_codes |-> <<>>]
        ELSE [exit |-> FALSE, country_codes |-> codes]

\* args.by_category: action='store_true', default=True
parse_by_category(flag_given) == IF flag_given THEN TRUE ELSE TRUE

----------------------------------------------------------------------------
(* Page fetcher and the simulated API. *)

CATEGORIES ==
    <<[id |-> <<"1">>, name |-> <<"F", "i", "l", "m", " ", "&", " ", "A", "n", "i", "m", "a", "t", "i", "o", "n">>],
      [id |-> <<"2">>, name |-> <<"A", "u", "t", "o", "s", " ", "&", " ", "V", "e", "h", "i", "c", "l", "e", "s">>],
      [id |-> <<"1", "0">>, name |-> <<"M", "u", "s", "i", "c">>],
      [id |-> <<"1", "5">>, name |-> <<"P", "e", "t", "s", " ", "&", " ", "A", "n", "i", "m", "a", "l", "s">>],
      [id |-> <<"1", "7">>, name |-> <<"S", "p", "o", "r", "t", "s">>],
      [id |-> <<"2", "0">>, name |-> <<"G", "a", "m", "i", "n", "g">>],
      [id |-> <<"2", "2">>, name |-> <<"P", "e", "o", "p", "l", "e", " ", "&", " ", "B", "l", "o", "g", "s">>],
      [id |-> <<"2", "3">>, name |-> <<"C", "o", "m", "e", "d", "y">>],
      [id |-> <<"2", "4">>, name |-> <<"E", "n", "t", "e", "r", "t", "a", "i", "n", "m", "e", "n", "t">>],
      [id |-> <<"2", "5">>, name |-> <<"N", "e", "w", "s", " ", "&", " ", "P", "o", "l", "i", "t", "i", "c", "s">>],
      [id |-> <<"2", "6">>, name |-> <<"H", "o", "w", "t", "o", " ", "&", " ", "S", "t", "y", "l", "e">>],
      [id |-> <<"2", "7">>, name |-> <<"E", "d", "u", "c", "a", "t", "i", "o", "n">>],
      [id |-> <<"2", "8">>, name |-> <<"S", "c", "i", "e", "n", "c", "e", " ", "&", " ", "T", "e", "c", "h", "n", "o", "l", "o", "g", "y">>]>>

\* the answers to one request: a status with its body, or an exception of requests.get
Timeout == [kind |-> "Timeout", status |-> 0, body |-> EmptyDict]
RequestException == [kind |-> "RequestException", status |-> 0, body |-> EmptyDict]
Status(code, body) == [kind |-> "status", status |-> code, body |-> body]

\* the item lists the simulated API serves as a page
PageShapes == {<<"removed">>, <<"valid", "removed", "valid">>, <<"valid", "nosnippet">>}

\* the continuation token the simulated API gives on page k of a target
token_of(k) == <<"T">> \o NatText(k)

\* the bodies of page k of a target: with and without a continuation token
Bodies(k, region, category) ==
    {[items |-> page_items(sh, 10 * k, region, category)] : sh \in PageShapes}
    \cup {[items |-> page_items(sh, 10 * k, region, category),
           nextPageToken |-> token_of(k)] : sh \in PageShapes}

Answers(k, region, category) ==
    {Status(200, b) : b \in Bodies(k, region, category)}
    \cup {Status(code, EmptyDict) : code \in {429, 403, 404}}
    \cup {Timeout, RequestException}

\* a slip: 429 is handled like the other statuses that are not 200
api_request_quota_local(answer) ==
    IF answer.kind = "status"
    THEN IF answer.status = 403 THEN [do |-> "exit", code |-> 1, json |-> EmptyDict]
         ELSE IF answer.status # 200 THEN [do |-> "none", code |-> 0, json |-> EmptyDict]
         ELSE [do |-> "json", code |-> 0, json |-> answer.body]
    ELSE [do |-> "none", code |-> 0, json |-> EmptyDict]

\* a slip: every status but 200 ends the process
api_request_all_fatal(answer) ==
    IF answer.kind = "status" /\ answer.status # 200
    THEN [do |-> "exit", code |-> 1, json |-> EmptyDict]
    ELSE IF answer.kind = "status"
    THEN [do |-> "json", code |-> 0, json |-> answer.body]
    ELSE [do |-> "none", code |-> 0, json |-> EmptyDict]

\* api_request after requests.get: sys.exit, return None or return request.json()
api_request(answer) ==
    IF answer.kind = "status"
    THEN IF answer.status = 429 THEN [do |-> "exit", code |-> 0, json |-> EmptyDict]
         ELSE IF answer.status = 403 THEN [do |-> "exit", code |-> 1, json |-> EmptyDict]
         ELSE IF answer.status # 200 THEN [do |-> "none", code |-> 0, json |-> EmptyDict]
         ELSE [do |-> "json", code |-> 0, json |-> answer.body]
    ELSE [do |-> "none", code |-> 0, json |-> EmptyDict]

----------------------------------------------------------------------------
(* Pagination driver. *)

\* a slip: the token of the response is not put into the parameter
next_token_param_first(page) ==
    IF "nextPageToken" \in DOMAIN page THEN <<"&">> ELSE PyNone

\* next_page_token after a page: "pageToken=<token>&", or None
next_token_param(page) ==
    IF "nextPageToken" \in DOMAIN page
    THEN <<"p", "a", "g", "e", "T", "o", "k", "e", "n", "=">>
         \o page["nextPageToken"] \o <<"&">>
    ELSE PyNone

\* a slip: the rows of a page replace the rows so far
accumulate_overwrite(data, lines) == lines

\* country_data += get_videos(items)
accumulate(data, lines) == data \o lines

----------------------------------------------------------------------------
(* Writer. *)

output_dir == Text("output/")

category_suffix(category_name) ==
    IF category_name = PyNone THEN <<>>
    ELSE <<"_">> \o replace(replace(category_name, " ", <<"_">>), "&", <<"a", "n", "d">>)

\* a slip: the category is left out of the file name
filename_without_category(country_code, category_name) ==
    output_dir \o <<"/">> \o strftime_today \o <<"_">> \o country_code
    \o <<"_", "v", "i", "d", "e", "o", "s", ".", "c", "s", "v">>

filename(country_code, category_name) ==
    output_dir \o <<"/">> \o strftime_today \o <<"_">> \o country_code
    \o category_suffix(category_name)
    \o <<"_", "v", "i", "d", "e", "o", "s", ".", "c", "s", "v">>

\* how a write_to_file call can end: done, or an exception of os.makedirs, of
\* open, or of file.write (here: of the write of the last row)
WriteOutcomes(rows, dir) ==
    {[end |-> "ok", written |-> Len(rows)],
     [end |-> "open", written |-> 0],
     [end |-> "write", written |-> Len(rows) - 1]}
    \cup (IF dir THEN {} ELSE {[end |-> "makedirs", written |-> 0]})

\* the files after write_to_file
\* a slip: the try block covers the with statement alone
write_error_caught_in_with(end) == end \in {"open", "write"}

\* except Exception: the exceptions of the try block that write_to_file
\* catches and reports (those of os.makedirs, open and file.write)
write_error_caught(end) == end \in {"makedirs", "open", "write"}

\* a slip: the file is opened for appending
write_to_file_append(disk, name, rows, outcome) ==
    IF outcome.end \in {"makedirs", "open"} THEN disk
    ELSE [f \in DOMAIN disk \cup {name} |->
             IF f = name
             THEN Get(disk, name, <<>>) \o SubSeq(rows, 1, outcome.written)
             ELSE disk[f]]

write_to_file(disk, name, rows, outcome) ==
    IF outcome.end \in {"makedirs", "open"} THEN disk
    ELSE [f \in DOMAIN disk \cup {name} |->
             IF f = name THEN SubSeq(rows, 1, outcome.written) ELSE disk[f]]

----------------------------------------------------------------------------
(* Orchestrator. *)

\* a slip: the header names are quoted like the fields of a video line
header_row_quoted ==
    join(<<COMMA>>, [i \in 1..Len(HEADER) |-> <<QUOTE>> \o Text(HEADER[i]) \o <<QUOTE>>])

\* the header line of every file: ",".join(HEADER)
header_row == join(<<COMMA>>, [i \in 1..Len(HEADER) |-> Text(HEADER[i])])

\* a slip: the header is counted as a video
should_write_header_counted(by_category, data) == Len(data) > 0

\* whether get_data calls write_to_file for the rows of a target
should_write(by_category, data) == IF by_category THEN Len(data) > 1 ELSE TRUE

category_id(k) == IF k = 0 THEN PyNone ELSE CATEGORIES[k].id
category_name(k) == IF k = 0 THEN PyNone ELSE CATEGORIES[k].name

\* the inner loop runs over the first NumCategories entries of CATEGORIES
LastCategory == IF NumCategories < Len(CATEGORIES) THEN NumCategories ELSE Len(CATEGORIES)

\* the target after target (c, k)
next_target(c, k) ==
    IF k = 0 \/ k = LastCategory THEN [ci |-> c + 1, ki |-> IF k = 0 THEN 0 ELSE 1]
    ELSE [ci |-> c, ki |-> k + 1]

\* the lists of country codes get_data is called with directly
CountryLists == {<< <<"U", "S">> >>, << <<"U", "S">>, <<"G", "B">> >>}

StaleRow == <<"s", "t", "a", "l", "e">>

\* the output directory before the run: none, or one with files of an earlier run
StaleFiles ==
    [f \in {filename(<<"U", "S">>, category_name(k)) : k \in 0..LastCategory} |->
        <<StaleRow, StaleRow, StaleRow>>]

Init ==
    /\ pf_in = T(<<>>) /\ pf_out = NoText
    /\ gv_in = <<>> /\ gv_out = NoRows
    /\ entry \in {"main", "get_data"}
    /\ \/ /\ entry = "main"
          /\ by_category_flag \in BOOLEAN
          /\ key_file \in KeyFiles /\ code_file \in CodeFiles
          /\ country_codes = <<>> /\ collect_by_category = FALSE
          /\ pc = "start" /\ ci = 0 /\ ki = 0
       \/ /\ entry = "get_data"
          /\ by_category_flag = FALSE
          /\ key_file = "key" /\ code_file = [exists |-> FALSE, lines |-> <<>>]
          /\ country_codes \in CountryLists /\ collect_by_category \in BOOLEAN
          /\ pc = "loop" /\ ci = 1 /\ ki = IF collect_by_category THEN 1 ELSE 0
    /\ exit_status = <<>>
    /\ next_page_token = PyNone /\ country_data = <<>>
    /\ fetches = <<>> /\ nfetch = 0 /\ last_fetch = NoFetch
    /\ dir_exists \in BOOLEAN
    /\ files = IF dir_exists THEN StaleFiles ELSE EmptyDict
    /\ handled = <<>>

pureVars == <<pf_in, pf_out, gv_in, gv_out>>
inputVars == <<entry, by_category_flag, key_file, code_file>>

\* __main__: parse_args, setup, and the call of get_data
Main ==
    /\ pc = "start"
    /\ LET s == setup(key_file, code_file)
       IN  IF s.exit
           THEN /\ pc' = "exited" /\ exit_status' = <<1>>
                /\ UNCHANGED <<country_codes, collect_by_category, ci, ki>>
           ELSE /\ pc' = "loop"
                /\ country_codes' = s.country_codes
                /\ collect_by_category' = parse_by_category(by_category_flag)
                /\ ci' = 1
                /\ ki' = IF parse_by_category(by_category_flag) THEN 1 ELSE 0
                /\ UNCHANGED exit_status
    /\ UNCHANGED <<pureVars, inputVars, next_page_token, country_data, fetches,
                   nfetch, last_fetch, dir_exists, files, handled>>

\* get_data: the next country/category, and the start of get_pages for it
BeginTarget ==
    /\ pc = "loop" /\ ci <= Len(country_codes)
    /\ pc' = "fetching"
    /\ country_data' = <<>>
    /\ next_page_token' = <<"&">>
    /\ fetches' = <<>>
    /\ UNCHANGED <<pureVars, inputVars, country_codes, collect_by_category,
                   exit_status, ci, ki, nfetch, last_fetch, dir_exists, files, handled>>

\* get_pages: one iteration of the while loop, with the api_request call in it
FetchPage ==
    /\ pc = "fetching" /\ nfetch < MaxFetches
    /\ \E answer \in Answers(Len(fetches) + 1, country_codes[ci], category_id(ki)) :
         LET r == api_request(answer)
             request == [page_token |-> next_page_token,
                         country_code |-> country_codes[ci],
                         category_id |-> category_id(ki)]
             gv == get_videos(Get(r.json, "items", <<>>))
         IN  /\ fetches' = Append(fetches, [request |-> request, answer |-> answer])
             /\ nfetch' = nfetch + 1
             /\ CASE r.do = "exit" ->
                        /\ pc' = "exited" /\ exit_status' = <<r.code>>
                        /\ last_fetch' = [outcome |-> "fatal", ci |-> ci, ki |-> ki]
                        /\ UNCHANGED <<next_page_token, country_data>>
                  [] r.do = "none" ->
                        /\ pc' = "handoff"
                        /\ last_fetch' = [outcome |-> "failed", ci |-> ci, ki |-> ki]
                        /\ UNCHANGED <<exit_status, next_page_token, country_data>>
                  [] r.do = "json" ->
                        /\ next_page_token' = next_token_param(r.json)
                        /\ IF gv.raised
                           THEN /\ pc' = "exited" /\ exit_status' = <<1>>
                                /\ last_fetch' = [outcome |-> "KeyError", ci |-> ci, ki |-> ki]
                                /\ UNCHANGED country_data
                           ELSE /\ country_data' = accumulate(country_data, gv.lines)
                                /\ pc' = IF next_token_param(r.json) = PyNone
                                         THEN "handoff" ELSE "fetching"
                                /\ last_fetch' = [outcome |-> "json", ci |-> ci, ki |-> ki]
                                /\ UNCHANGED exit_status
    /\ UNCHANGED <<pureVars, inputVars, country_codes, collect_by_category,
                   ci, ki, dir_exists, files, handled>>

\* get_data after get_pages returned: the header, the write_to_file call or the
\* "No videos found" message, and the step to the next target
HandOff ==
    /\ pc = "handoff"
    /\ LET data == <<header_row>> \o country_data
           name == filename(country_codes[ci], category_name(ki))
           goes_on == /\ pc' = "loop"
                      /\ ci' = next_target(ci, ki).ci
                      /\ ki' = next_target(ci, ki).ki
                      /\ UNCHANGED exit_status
           uncaught == /\ pc' = "exited" /\ exit_status' = <<1>>
                       /\ UNCHANGED <<ci, ki>>
       IN  IF should_write(collect_by_category, data)
           THEN \E outcome \in WriteOutcomes(data, dir_exists) :
                   /\ files' = write_to_file(files, name, data, outcome)
                   /\ dir_exists' = (dir_exists \/ outcome.end # "makedirs")
                   /\ handled' = Append(handled, [ci |-> ci, ki |-> ki,
                                                  videos |-> Len(country_data),
                                                  write |-> outcome.end])
                   /\ IF outcome.end = "ok" \/ write_error_caught(outcome.end)
                      THEN goes_on ELSE uncaught
           ELSE /\ handled' = Append(handled, [ci |-> ci, ki |-> ki,
                                               videos |-> Len(country_data),
                                               write |-> "none"])
                /\ UNCHANGED <<files, dir_exists>>
                /\ goes_on
    /\ UNCHANGED <<pureVars, inputVars, country_codes, collect_by_category,
                   next_page_token, country_data, fetches, nfetch, last_fetch>>

\* get_data returns after the last country: "Data collection complete!"
Complete ==
    /\ pc = "loop" /\ ci > Len(country_codes)
    /\ pc' = "complete" /\ exit_status' = <<0>>
    /\ UNCHANGED <<pureVars, inputVars, country_codes, collect_by_category,
                   ci, ki, next_page_token, country_data, fetches, nfetch,
                   last_fetch, dir_exists, files, handled>>

Next == Main \/ BeginTarget \/ FetchPage \/ HandOff \/ Complete

Spec == Init /\ [][Next]_vars

----------------------------------------------------------------------------
(* Reading a serialized row back. *)

\* the characters prepare_feature keeps
Kept(text) == SelectSeq(text, LAMBDA c : c \notin {NL, QUOTE})

Quoted(text) == <<QUOTE>> \o text \o <<QUOTE>>

\* the commas of a row that are outside quotes
Separators(row) ==
    {i \in 1..Len(row) :
        /\ row[i] = COMMA
        /\ Cardinality({j \in 1..(i - 1) : row[j] = QUOTE}) % 2 = 0}

\* the fields of a row: split at the commas that are outside quotes
Fields(row) ==
    LET seps == Separators(row)
        sep(k) == IF k = 0 THEN 0
                  ELSE IF k > Cardinality(seps) THEN Len(row) + 1
                  ELSE CHOOSE i \in seps : Cardinality({j \in seps : j < i}) = k - 1
    IN  [k \in 1..(Cardinality(seps) + 1) |-> SubSeq(row, sep(k - 1) + 1, sep(k) - 1)]

Column(name) == CHOOSE i \in 1..Len(HEADER) : HEADER[i] = name

HasStatistics(video) == "statistics" \in DOMAIN video

StatItems(items) == SelectSeq(items, HasStatistics)

----------------------------------------------------------------------------
(* C10: prepare_feature returns the canonical text of its argument without *)
(* its newlines and double quotes, the other characters in order, inside   *)
(* exactly one pair of double quotes.                                      *)
C10_PrepareFeature ==
    pf_out.done =>
        LET out == pf_out.text
            inner == SubSeq(out, 2, Len(out) - 1)
        IN  /\ Len(out) >= 2
            /\ out[1] = QUOTE /\ out[Len(out)] = QUOTE
            /\ \A i \in 1..Len(inner) : inner[i] \notin {NL, QUOTE}
            /\ inner = Kept(str(pf_in))

C10_Witness ==
    /\ pf_out.done
    /\ pf_in = T(<<QUOTE, "a", NL>>)
    /\ pf_out.text = <<QUOTE, "a", QUOTE>>

(* C7: get_videos emits no row for an item without statistics and exactly  *)
(* one row for every item with statistics, in item order.                  *)
C7_OneRowPerStatItem ==
    gv_out.done =>
        /\ ~gv_out.raised
        /\ Len(gv_out.lines) = Len(StatItems(gv_in))
        /\ Len(gv_in) - Len(gv_out.lines)
             = Cardinality({i \in 1..Len(gv_in) : ~HasStatistics(gv_in[i])})
        /\ \A k \in 1..Len(gv_out.lines) :
              /\ "id" \in DOMAIN StatItems(gv_in)[k]
              /\ Fields(gv_out.lines[k])[Column("video_id")]
                   = Quoted(Kept(str(StatItems(gv_in)[k].id)))

(* C8: in every row, ratings_disabled is True exactly when the item's      *)
(* statistics have no likeCount, and then likes and dislikes are 0.        *)
C8_RatingsDisabled ==
    (gv_out.done /\ ~gv_out.raised) =>
        \A k \in 1..Len(gv_out.lines) :
            k <= Len(StatItems(gv_in)) =>
                LET f == Fields(gv_out.lines[k])
                    st == StatItems(gv_in)[k].statistics
                    flag == f[Column("ratings_disabled")]
                IN  /\ Len(f) = Len(HEADER)
                    /\ flag \in {Quoted(str(B(TRUE))), Quoted(str(B(FALSE)))}
                    /\ flag = Quoted(str(B(TRUE))) <=> "likeCount" \notin DOMAIN st
                    /\ flag = Quoted(str(B(TRUE))) =>
                          /\ f[Column("likes")] = Quoted(<<"0">>)
                          /\ f[Column("dislikes")] = Quoted(<<"0">>)

C8_Witness ==
    /\ gv_out.done /\ ~gv_out.raised
    /\ Len(gv_out.lines) = 1 /\ Len(gv_in) = 1
    /\ HasStatistics(gv_in[1])
    /\ DOMAIN gv_in[1].statistics = {"dislikeCount", "viewCount", "commentCount"}
    /\ Fields(gv_out.lines[1])[Column("ratings_disabled")] = Quoted(<<"T", "r", "u", "e">>)

(* C9: in every row, comments_disabled is True exactly when the item's     *)
(* statistics have no commentCount; comment_count is then 0, and otherwise *)
(* the item's commentCount.                                                *)
C9_CommentsDisabled ==
    (gv_out.done /\ ~gv_out.raised) =>
        \A k \in 1..Len(gv_out.lines) :
            k <= Len(StatItems(gv_in)) =>
                LET f == Fields(gv_out.lines[k])
                    st == StatItems(gv_in)[k].statistics
                    flag == f[Column("comments_disabled")]
                IN  /\ Len(f) = Len(HEADER)
                    /\ flag \in {Quoted(str(B(TRUE))), Quoted(str(B(FALSE)))}
                    /\ flag = Quoted(str(B(TRUE))) <=> "commentCount" \notin DOMAIN st
                    /\ f[Column("comment_count")] =
                          IF "commentCount" \in DOMAIN st
                          THEN Quoted(Kept(str(st.commentCount)))
                          ELSE Quoted(<<"0">>)

C9_Witness ==
    /\ gv_out.done /\ ~gv_out.raised
    /\ Len(gv_out.lines) = 1 /\ Len(gv_in) = 1
    /\ HasStatistics(gv_in[1])
    /\ DOMAIN gv_in[1].statistics = {"likeCount", "viewCount"}
    /\ Fields(gv_out.lines[1])[Column("comments_disabled")] = Quoted(<<"T", "r", "u", "e">>)
    /\ Fields(gv_out.lines[1])[Column("comment_count")] = Quoted(<<"0">>)

----------------------------------------------------------------------------
(* Reading the log of the requests of a target. *)

Last(seq) == seq[Len(seq)]

OkPage(f) == f.answer.kind = "status" /\ f.answer.status = 200
FatalAnswer(f) == f.answer.kind = "status" /\ f.answer.status \in {429, 403}
LocalFailure(f) == ~OkPage(f) /\ ~FatalAnswer(f)
HasToken(f) == "nextPageToken" \in DOMAIN f.answer.body
PageItems(f) == Get(f.answer.body, "items", <<>>)

\* the rows of the pages of a log, page after page
RECURSIVE RowsOf(_)
RowsOf(log) ==
    IF log = <<>> THEN <<>>
    ELSE (IF OkPage(Head(log)) THEN get_videos(PageItems(Head(log))).lines ELSE <<>>)
         \o RowsOf(Tail(log))

Targets(log) == {<<log[i].ci, log[i].ki>> : i \in 1..Len(log)}

\* the country codes of the runs
Countries == UNION {{cl[i] : i \in 1..Len(cl)} : cl \in CountryLists}

\* the file name of every target
NameOf == [c \in Countries, k \in 0..LastCategory |-> filename(c, category_name(k))]

\* the current target's file is what it was before the run
Unwritten(name) == name \notin DOMAIN files \/ files[name] = <<StaleRow, StaleRow, StaleRow>>

(* C1: a 429 or 403 answer ends the process at once: the rows of the       *)
(* current target are not written, write_to_file is not called for it, and *)
(* no step of the program follows.                                         *)
C1_FatalStopsRun ==
    /\ \A k \in 1..(Len(fetches) - 1) : ~FatalAnswer(fetches[k])
    /\ (fetches # <<>> /\ FatalAnswer(Last(fetches))) =>
          /\ pc = "exited"
          /\ ~ENABLED Next
          /\ <<ci, ki>> \notin Targets(handled)
          /\ Unwritten(NameOf[country_codes[ci], ki])
          /\ country_data = RowsOf(SubSeq(fetches, 1, Len(fetches) - 1))

C1_Witness ==
    /\ pc = "exited"
    /\ Len(fetches) = 2 /\ Last(fetches).answer.status = 429
    /\ Len(country_data) = 2
    /\ collect_by_category /\ ci = 1 /\ ki = 1 /\ Len(country_codes) = 2
    /\ files = EmptyDict /\ handled = <<>>

(* C2: the process ends with a non-zero status after a 429 as after a 403; *)
(* status zero means normal completion.                                    *)
C2_FatalExitNonZero ==
    /\ (pc = "exited" /\ fetches # <<>> /\ FatalAnswer(Last(fetches))) => exit_status # <<0>>
    /\ exit_status = <<0>> => pc = "complete"

(* C3: when get_pages returns after n >= 1 successful pages, country_data  *)
(* is the rows of page 1, then those of page 2, ..., then those of page n. *)
C3_Concatenation ==
    (pc = "handoff" /\ \A k \in 1..Len(fetches) : OkPage(fetches[k])) =>
        /\ Len(fetches) >= 1
        /\ country_data = RowsOf(fetches)

C3_Witness ==
    /\ pc = "handoff" /\ Len(fetches) = 3
    /\ \A k \in 1..3 : OkPage(fetches[k])
    /\ Len(country_data) = 6
    /\ Fields(country_data[1])[Column("video_id")] = Quoted(<<"v", "1", "1">>)
    /\ Fields(country_data[6])[Column("video_id")] = Quoted(<<"v", "3", "3">>)

(* C4: the requests of a target stop at the first page that fails or has   *)
(* no continuation token; request k+1 is made only after a successful page *)
(* k with a token and carries that token; a target that is done is not     *)
(* fetched again; a lone page without token gives one row per item with    *)
(* statistics.                                                             *)
C4_FetchCount ==
    /\ fetches # <<>> => fetches[1].request.page_token = <<"&">>
    /\ \A k \in 1..(Len(fetches) - 1) :
          /\ OkPage(fetches[k]) /\ HasToken(fetches[k])
          /\ fetches[k + 1].request.page_token =
                <<"p", "a", "g", "e", "T", "o", "k", "e", "n", "=">>
                \o fetches[k].answer.body.nextPageToken \o <<"&">>
    /\ pc = "handoff" =>
          /\ fetches # <<>>
          /\ ~OkPage(Last(fetches)) \/ ~HasToken(Last(fetches))
    /\ pc = "fetching" =>
          /\ fetches = <<>> \/ (OkPage(Last(fetches)) /\ HasToken(Last(fetches)))
          /\ <<ci, ki>> \notin Targets(handled)
    /\ pc = "loop" /\ handled # <<>> =>
          /\ <<ci, ki>> \notin Targets(handled)
          /\ ~OkPage(Last(fetches)) \/ ~HasToken(Last(fetches))
    /\ (pc = "handoff" /\ Len(fetches) = 1 /\ OkPage(fetches[1])) =>
          Len(country_data) = Len(StatItems(PageItems(fetches[1])))

C4_Witness ==
    /\ pc = "handoff" /\ Len(fetches) = 1
    /\ OkPage(fetches[1]) /\ ~HasToken(fetches[1])
    /\ Len(PageItems(fetches[1])) = 3 /\ Len(country_data) = 2

(* C5: after a failure that is local to a fetch, get_pages returns the     *)
(* rows of the earlier pages of the target, the process goes on and        *)
(* get_data turns to the next target.                                      *)
C5_LocalFailureContinues ==
    /\ (fetches # <<>> /\ LocalFailure(Last(fetches))) =>
          /\ pc \in {"handoff", "loop", "complete"}
          /\ exit_status \in {<<>>, <<0>>}
          /\ country_data = RowsOf(SubSeq(fetches, 1, Len(fetches) - 1))
          /\ pc = "loop" =>
                /\ Last(handled).videos = Len(country_data)
                /\ <<ci, ki>> = <<next_target(Last(handled).ci, Last(handled).ki).ci,
                                  next_target(Last(handled).ci, Last(handled).ki).ki>>
                /\ ci <= Len(country_codes) => ENABLED BeginTarget
    /\ last_fetch.outcome = "failed" =>
          /\ pc # "exited"
          /\ pc = "fetching" =>
                /\ fetches = <<>>
                /\ <<ci, ki>> = <<next_target(last_fetch.ci, last_fetch.ki).ci,
                                  next_target(last_fetch.ci, last_fetch.ki).ki>>

C5_Witness ==
    /\ last_fetch = [outcome |-> "failed", ci |-> 1, ki |-> 1]
    /\ pc = "fetching" /\ ci = 1 /\ ki = 2 /\ fetches = <<>>
    /\ Len(handled) = 1 /\ handled[1].videos = 2 /\ handled[1].write = "ok"
    /\ nfetch = 2

(* C6: with category-splitting, write_to_file is called for a target       *)
(* exactly when its pagination gave at least one row; without it,          *)
(* write_to_file is called for every country, and zero rows give a file    *)
(* with the header alone.                                                  *)
C6_WriteIffVideos ==
    \A i \in 1..Len(handled) :
        LET h == handled[i]
            name == NameOf[country_codes[h.ci], h.ki]
        IN  /\ collect_by_category => (h.write # "none" <=> h.videos >= 1)
            /\ ~collect_by_category => h.write # "none"
            /\ h.write = "none" => Unwritten(name)
            /\ h.write = "ok" =>
                  /\ Len(files[name]) = h.videos + 1
                  /\ files[name][1] = header_row

C6_Witness ==
    /\ collect_by_category /\ pc = "complete"
    /\ Len(country_codes) = 1 /\ Len(handled) = 2
    /\ \A i \in 1..2 : handled[i].videos = 0 /\ handled[i].write = "none"
    /\ ~dir_exists /\ files = EmptyDict

C6_WitnessUnsplit ==
    /\ ~collect_by_category /\ pc = "complete"
    /\ Len(handled) = 1 /\ handled[1].videos = 0 /\ handled[1].write = "ok"
    /\ files[filename(country_codes[1], PyNone)] = <<header_row>>

(* C11: the tags field of every row is the sanitized form of the tags      *)
(* joined with "|" in list order, and the sanitized form of [none] when    *)
(* the item has no tags; this is the field as serialized in the row.       *)
C11_TagsField ==
    (gv_out.done /\ ~gv_out.raised) =>
        \A k \in 1..Len(gv_out.lines) :
            k <= Len(StatItems(gv_in)) =>
                LET tags == Get(StatItems(gv_in)[k].snippet, "tags", <<>>)
                    field == Fields(gv_out.lines[k])[Column("tags")]
                IN  field = IF tags = <<>> THEN Quoted(NoneTag)
                            ELSE Quoted(Kept(join(<<"|">>, tags)))

C11_Witness ==
    /\ gv_out.done /\ ~gv_out.raised
    /\ Len(gv_in) = 1 /\ Len(gv_out.lines) = 1
    /\ "snippet" \in DOMAIN gv_in[1]
    /\ Get(gv_in[1].snippet, "tags", <<>>) = << <<"x">>, <<"y", QUOTE>> >>
    /\ Fields(gv_out.lines[1])[Column("tags")] = <<QUOTE, "x", "|", "y", QUOTE>>

C11_WitnessNoTags ==
    /\ gv_out.done /\ ~gv_out.raised
    /\ Len(gv_in) = 1 /\ Len(gv_out.lines) = 1
    /\ "snippet" \in DOMAIN gv_in[1]
    /\ "tags" \notin DOMAIN gv_in[1].snippet
    /\ Fields(gv_out.lines[1])[Column("tags")] = Quoted(NoneTag)

(* C20: prepare_feature is idempotent: sanitizing a sanitized text returns *)
(* that text, so a field sanitized twice is serialized with one pair of    *)
(* double quotes, as if sanitized once.                                    *)
C20_Idempotent ==
    pf_out.done =>
        LET twice == prepare_feature(T(pf_out.text))
        IN  /\ twice = pf_out.text
            /\ Cardinality({i \in 1..Len(twice) : twice[i] = QUOTE}) = 2

C20_Witness ==
    /\ pf_out.done
    /\ pf_in = T(<<QUOTE, "a", NL>>)
    /\ pf_out.text = <<QUOTE, "a", QUOTE>>
    /\ prepare_feature(T(pf_out.text)) = <<QUOTE, "a", QUOTE>>

\* the value a row holds under the header column `name`, before sanitizing
ColumnValue(video, name) ==
    LET snippet == video.snippet
        statistics == video.statistics
        tags == Get(snippet, "tags", <<>>)
        rated == "likeCount" \in DOMAIN statistics
    IN  CASE name = "video_id" -> video.id
          [] name \in {"title", "publishedAt", "channelId", "channelTitle",
                       "categoryId", "description"} -> Get(snippet, name, T(<<>>))
          [] name = "trending_date" -> T(strftime_today)
          [] name = "tags" ->
                T(IF tags = <<>> THEN NoneTag ELSE join(<<"|">>, tags))
          [] name = "view_count" -> Get(statistics, "viewCount", I(0))
          [] name = "likes" -> IF rated THEN statistics.likeCount ELSE I(0)
          [] name = "dislikes" ->
                IF rated THEN Get(statistics, "dislikeCount", I(0)) ELSE I(0)
          [] name = "comment_count" -> Get(statistics, "commentCount", I(0))
          [] name = "thumbnail_link" ->
                IF /\ "thumbnails" \in DOMAIN snippet
                   /\ "default" \in DOMAIN snippet.thumbnails
                   /\ "url" \in DOMAIN snippet.thumbnails.default
                THEN snippet.thumbnails.default.url ELSE T(<<>>)
          [] name = "comments_disabled" -> B("commentCount" \notin DOMAIN statistics)
          [] name = "ratings_disabled" -> B(~rated)
          [] name = "duration" ->
                IF /\ "contentDetails" \in DOMAIN video
                   /\ "duration" \in DOMAIN video.contentDetails
                THEN video.contentDetails.duration ELSE T(<<>>)

(* C13: every row has exactly 17 fields, each sanitized and inside one     *)
(* pair of double quotes, and field i holds the value of header column i.  *)
C13_RowShape ==
    (gv_out.done /\ ~gv_out.raised) =>
        \A k \in 1..Len(gv_out.lines) :
            k <= Len(StatItems(gv_in)) =>
                LET fields == Fields(gv_out.lines[k])
                    video == StatItems(gv_in)[k]
                IN  /\ Len(HEADER) = 17
                    /\ Len(fields) = 17
                    /\ \A i \in 1..17 :
                          fields[i] = Quoted(Kept(str(ColumnValue(video, HEADER[i]))))

C13_Witness ==
    /\ gv_out.done /\ ~gv_out.raised
    /\ Len(gv_in) = 1 /\ Len(gv_out.lines) = 1
    /\ "snippet" \in DOMAIN gv_in[1] /\ "statistics" \in DOMAIN gv_in[1]
    /\ gv_in[1].snippet = FullSnippet
    /\ DOMAIN gv_in[1].statistics = {"viewCount", "likeCount", "dislikeCount"}
    /\ LET fields == Fields(gv_out.lines[1])
       IN  /\ Len(fields) = 17
           /\ fields[Column("title")] = <<QUOTE, "a", COMMA, QUOTE>>
           /\ fields[Column("comments_disabled")] = Quoted(<<"T", "r", "u", "e">>)
           /\ fields[Column("ratings_disabled")] = Quoted(<<"F", "a", "l", "s", "e">>)

\* the row of `video` holds the default of every optional part it lacks
DefaultsInRow(video, row) ==
    LET fields == Fields(row)
        snippet == Get(video, "snippet", EmptyDict)
        default == Get(Get(snippet, "thumbnails", EmptyDict), "default", EmptyDict)
        details == Get(video, "contentDetails", EmptyDict)
        empty == Quoted(<<>>)
    IN  /\ Len(fields) = Len(HEADER)
        /\ \A i \in 1..Len(SNIPPET_FEATURES) :
              SNIPPET_FEATURES[i] \notin DOMAIN snippet =>
                  fields[Column(SNIPPET_FEATURES[i])] = empty
        /\ "description" \notin DOMAIN snippet => fields[Column("description")] = empty
        /\ "url" \notin DOMAIN default => fields[Column("thumbnail_link")] = empty
        /\ "duration" \notin DOMAIN details => fields[Column("duration")] = empty
        /\ "viewCount" \notin DOMAIN video.statistics =>
              fields[Column("view_count")] = Quoted(<<"0">>)

(* C16: for the items that carry statistics (and an id) get_videos returns *)
(* one row each, holding the defaults of the optional parts an item lacks: *)
(* "" for the snippet features, the description, the thumbnail link (the   *)
(* snippet, thumbnails, default or url absent) and the duration, and 0 for *)
(* the view count.                                                         *)
C16_DefaultsForMissing ==
    (gv_out.done /\ \A k \in 1..Len(StatItems(gv_in)) :
                        "id" \in DOMAIN StatItems(gv_in)[k]) =>
        /\ ~gv_out.raised
        /\ Len(gv_out.lines) = Len(StatItems(gv_in))
        /\ \A k \in 1..Len(gv_out.lines) :
              DefaultsInRow(StatItems(gv_in)[k], gv_out.lines[k])

\* the 17 column names, comma-separated: bare, and each inside double quotes
BareHeader == join(<<COMMA>>, [i \in 1..17 |-> Text(HEADER[i])])
QuotedHeader == join(<<COMMA>>, [i \in 1..17 |-> Quoted(Text(HEADER[i]))])

\* the header line holds no double quote, and 16 commas
BareHeaderUnquoted ==
    /\ \A j \in 1..Len(BareHeader) : BareHeader[j] # QUOTE
    /\ Cardinality({j \in 1..Len(BareHeader) : BareHeader[j] = COMMA}) = 16

\* the file write_to_file was called for in the i-th hand-off
FileOf(i) == NameOf[country_codes[handled[i].ci], handled[i].ki]

\* the hand-offs in which write_to_file wrote at least one line
Wrote(i) ==
    /\ handled[i].write \in {"ok", "write"}
    /\ FileOf(i) \in DOMAIN files
    /\ files[FileOf(i)] # <<>>

(* C12, as stated: the first line of every file the program writes is the  *)
(* header of 17 comma-separated names, each name inside double quotes like *)
(* the fields of the video lines.                                          *)
C12_HeaderQuoted ==
    \A i \in 1..Len(handled) : Wrote(i) => files[FileOf(i)][1] = QuotedHeader

(* C12, amended: the first line of every file the program writes a line to *)
(* is the header of 17 comma-separated column names in schema order,       *)
(* written bare: no double quote occurs in the header line.                *)
C12_HeaderBare ==
    \A i \in 1..Len(handled) :
        Wrote(i) =>
            /\ files[FileOf(i)][1] = BareHeader
            /\ BareHeaderUnquoted

C12_Witness ==
    /\ Len(handled) = 1 /\ handled[1].write = "ok" /\ handled[1].videos = 2
    /\ Len(files[FileOf(1)]) = 3
    /\ files[FileOf(1)][1] = BareHeader
    /\ files[FileOf(1)][2][1] = QUOTE

\* write_to_file has just returned (the rows it was given are still in
\* country_data) and it reached its end without an exception
JustWritten ==
    /\ pc \in {"loop", "complete"}
    /\ handled # <<>>
    /\ Last(handled).write = "ok"

(* C14: after a write_to_file call that succeeded the file holds exactly   *)
(* the rows given, in their order, and nothing of the file that was there  *)
(* before; with no video row it holds the header line alone.               *)
C14_FileIsRows ==
    JustWritten =>
        LET file == files[FileOf(Len(handled))]
        IN  /\ file = <<BareHeader>> \o country_data
            /\ \A j \in 1..Len(file) : file[j] # StaleRow
            /\ country_data = <<>> => file = <<BareHeader>>

C14_Witness ==
    /\ JustWritten /\ Len(handled) = 1 /\ handled[1].ki = 1
    /\ Len(country_data) = 2
    /\ files[FileOf(1)] = <<BareHeader>> \o country_data
    /\ \E f \in DOMAIN files : f # FileOf(1) /\ files[f] = <<StaleRow, StaleRow, StaleRow>>

C14_WitnessHeaderOnly ==
    /\ JustWritten /\ Len(handled) = 1 /\ handled[1].ki = 0
    /\ country_data = <<>>
    /\ files[FileOf(1)] = <<BareHeader>>
    /\ \E f \in DOMAIN files : f # FileOf(1) /\ files[f] = <<StaleRow, StaleRow, StaleRow>>

WriteErrors == {"makedirs", "open", "write"}

(* C15: a write error of one target does not end the run: get_data turns   *)
(* to the next target, which is fetched and handed off like any other, and *)
(* after the last target the process completes with status 0; the process  *)
(* ends early only where a later fetch ends it.                            *)
C15_WriteErrorContinues ==
    \A i \in 1..Len(handled) :
        handled[i].write \in WriteErrors =>
            LET next == next_target(handled[i].ci, handled[i].ki)
            IN  /\ i < Len(handled) =>
                      <<handled[i + 1].ci, handled[i + 1].ki>> = <<next.ci, next.ki>>
                /\ i = Len(handled) =>
                      /\ <<ci, ki>> = <<next.ci, next.ki>>
                      /\ pc = "loop" =>
                            /\ exit_status = <<>>
                            /\ ci <= Len(country_codes) => ENABLED BeginTarget
                            /\ ci > Len(country_codes) => ENABLED Complete
                /\ pc = "exited" =>
                      /\ last_fetch.outcome \in {"fatal", "KeyError"}
                      /\ <<last_fetch.ci, last_fetch.ki>> = <<ci, ki>>
                /\ pc = "complete" => exit_status = <<0>>

C15_Witness ==
    /\ pc = "complete" /\ exit_status = <<0>>
    /\ Len(handled) = 2
    /\ handled[1].write = "makedirs" /\ handled[1].videos = 2
    /\ handled[2].write = "ok" /\ handled[2].videos = 2
    /\ DOMAIN files = {FileOf(2)}

C15_WitnessWriteFailure ==
    /\ pc = "complete" /\ exit_status = <<0>>
    /\ Len(handled) = 2
    /\ handled[1].write = "write" /\ handled[2].write = "ok"

\* the run started from the command line with files setup cannot use
SetupFails ==
    /\ entry = "main"
    /\ \/ key_file \in {"missing", "blank"}
       \/ ~code_file.exists
       \/ \A i \in 1..Len(code_file.lines) :
             \A j \in 1..Len(code_file.lines[i]) : code_file.lines[i][j] \in Whitespace

(* C17: when setup fails (the key file missing or its first line empty,    *)
(* the country-code file missing or without a non-blank line) the process  *)
(* ends with status 1 in its first step: no page is ever fetched, no       *)
(* write_to_file call is made and the output directory is left as it was.  *)
C17_SetupFailureHalts ==
    SetupFails =>
        /\ pc \in {"start", "exited"}
        /\ pc = "start" => ENABLED Main /\ exit_status = <<>>
        /\ pc = "exited" => exit_status = <<1>> /\ ~ENABLED Next
        /\ nfetch = 0 /\ fetches = <<>> /\ last_fetch = NoFetch
        /\ handled = <<>>
        /\ files = IF dir_exists THEN StaleFiles ELSE EmptyDict

C17_Witness ==
    /\ pc = "exited" /\ exit_status = <<1>>
    /\ key_file = "key" /\ code_file.exists
    /\ Len(code_file.lines) > 0
    /\ SetupFails
    /\ nfetch = 0 /\ handled = <<>>

\* get_data is running, or has run, for a run started from the command line
CalledFromMain == entry = "main" /\ pc # "start" /\ country_codes # <<>>

(* C18: category-splitting is on when --by_category is not given, and it   *)
(* is a toggle: whichever way get_data runs, there is a command line under *)
(* which it runs the other way.                                            *)
C18_RealToggle ==
    CalledFromMain =>
        /\ ~by_category_flag => collect_by_category
        /\ \E flag_given \in BOOLEAN :
              parse_by_category(flag_given) # collect_by_category

\* the row was extracted from an item of the pages of country c, category k
\* (a sanitized field holds no double quote, so field n of a row lies
\* between the row's double quotes 2n-1 and 2n)
RowOfTarget(row, c, k) ==
    LET quotes == SelectSeq([i \in 1..Len(row) |-> i], LAMBDA i : row[i] = QUOTE)
        field(n) == SubSeq(row, quotes[2 * n - 1], quotes[2 * n])
    IN  /\ Len(quotes) = 2 * Len(HEADER)
        /\ field(Column("title")) = Quoted(country_codes[c])
        /\ field(Column("categoryId")) = Quoted(category_id(k))

\* get_pages is running for the current target, or has just returned its rows
Paginating == pc \in {"fetching", "handoff"}

(* C19: the targets are kept apart and a target is written only when its   *)
(* pagination is over: its accumulator starts empty and holds the rows of  *)
(* its own pages alone, every request of its pagination names its country  *)
(* and category, its file is untouched while pages are fetched and is      *)
(* written in at most one hand-off of the run, and every video line of a   *)
(* file written comes from an item of that file's country and category.    *)
C19_TargetsIsolated ==
    /\ (pc = "fetching" /\ fetches = <<>>) => country_data = <<>>
    /\ Paginating =>
          /\ \A r \in 1..Len(country_data) : RowOfTarget(country_data[r], ci, ki)
          /\ \A i \in 1..Len(fetches) :
                /\ fetches[i].request.country_code = country_codes[ci]
                /\ fetches[i].request.category_id = category_id(ki)
          /\ <<ci, ki>> \notin Targets(handled)
          /\ Unwritten(NameOf[country_codes[ci], ki])
    /\ \A i, j \in 1..Len(handled) :
          i # j => /\ <<handled[i].ci, handled[i].ki>> # <<handled[j].ci, handled[j].ki>>
                   /\ FileOf(i) # FileOf(j)
    /\ pc \in {"loop", "complete"} =>
          \A i \in 1..Len(handled) :
             Wrote(i) =>
                /\ Len(files[FileOf(i)]) <= handled[i].videos + 1
                /\ \A r \in 2..Len(files[FileOf(i)]) :
                      RowOfTarget(files[FileOf(i)][r], handled[i].ci, handled[i].ki)

C19_Witness ==
    /\ pc = "complete" /\ Len(handled) = 2
    /\ handled[1].write = "ok" /\ handled[1].videos = 2
    /\ handled[2].write = "ok" /\ handled[2].videos = 2
    /\ handled[1].ci = 1 /\ handled[2].ci = 1 /\ handled[1].ki # handled[2].ki
    /\ Len(files[FileOf(1)]) = 3 /\ Len(files[FileOf(2)]) = 3
    /\ files[FileOf(1)] # files[FileOf(2)]

====
